---------------------------- MODULE Spec2Model ----------------------------
(***************************************************************************)
(* MCPress: article ingestion and retrieval.                               *)
(*                                                                         *)
(* The model follows backend/app/services/storage.py (save_article and its *)
(* helpers, one database transaction per request, interleaved at every     *)
(* await), backend/app/api/routes/articles.py (the HTTP handlers),         *)
(* backend/app/services/extractor.py and embedder.py,                      *)
(* backend/app/store/chroma_store.py and the MCP tools of                  *)
(* mcp-server/src/mcpress/tools/articles.py.                               *)
(***************************************************************************)
EXTENDS Integers, Sequences, FiniteSets, TLC

(***************************************************************************)
(* Bounds of the model.                                                    *)
(***************************************************************************)
\* number of save requests the server handles concurrently
NumProcs == 2
\* number of save requests the clients send in all
MaxSaves == 2

Procs == 1..NumProcs

(***************************************************************************)
(* Values.  Python's None is modelled per type: the string "None", the id  *)
(* 0, the organization NoOrg, the date NoDate.                             *)
(***************************************************************************)
None == "None"
NoId == 0

\* OrganizationInfo (models/article.py); NoOrg stands for organization=None
NoOrg == [name |-> None, email |-> None]

\* A date string is <<separator, a, b, c>>: "a-b-c" or "a/b/c".
NoDateStr == <<None, 0, 0, 0>>
\* A date is <<year, month, day>>.
NoDate == <<0, 0, 0>>

\* A category string: its lower-cased, stripped text and whether the string
\* as sent was already in that form ("plain") or not ("mixed": upper-case
\* letters or surrounding blanks).
Cat(n, f) == [name |-> n, form |-> f]

\* str.lower().strip() of a category string
NormalizeCategory(c) == [c EXCEPT !.form = "plain"]

IsLeap(y) == (y % 4 = 0 /\ y % 100 # 0) \/ y % 400 = 0

DaysIn(y, m) ==
    IF m \in {4, 6, 9, 11} THEN 30
    ELSE IF m = 2 THEN (IF IsLeap(y) THEN 29 ELSE 28)
    ELSE 31

ValidDate(y, m, d) == y >= 1 /\ m \in 1..12 /\ d >= 1 /\ d <= DaysIn(y, m)

\* a _parse_date that stops after date.fromisoformat
ParseDateIsoOnly(s) ==
    IF s = NoDateStr THEN NoDate
    ELSE IF s[1] = "-" THEN
        (IF ValidDate(s[2], s[3], s[4]) THEN <<s[2], s[3], s[4]>> ELSE NoDate)
    ELSE NoDate

\* ArticleStorage._parse_date: date.fromisoformat, then "%Y-%m-%d",
\* "%d/%m/%Y", "%m/%d/%Y", "%Y/%m/%d" in that order, else None.
ParseDate(s) ==
    IF s = NoDateStr THEN NoDate
    ELSE IF s[1] = "-" THEN
        (IF ValidDate(s[2], s[3], s[4]) THEN <<s[2], s[3], s[4]>> ELSE NoDate)
    ELSE IF s[1] = "/" THEN
        (IF ValidDate(s[4], s[3], s[2]) THEN <<s[4], s[3], s[2]>>
         ELSE IF ValidDate(s[4], s[2], s[3]) THEN <<s[4], s[2], s[3]>>
         ELSE IF ValidDate(s[2], s[3], s[4]) THEN <<s[2], s[3], s[4]>>
         ELSE NoDate)
    ELSE NoDate

(***************************************************************************)
(* The save requests the clients send (SaveRequest, models/article.py).    *)
(***************************************************************************)
Requests ==
    { [url |-> "u1", title |-> "t1", author |-> "a1",
       published_date |-> <<"-", 2024, 1, 2>>, content |-> "c1",
       summary |-> "s1", keywords |-> <<"k1">>, category |-> Cat("tech", "mixed"),
       organization |-> [name |-> "A", email |-> "e1"], image_url |-> "i1"],
      [url |-> "u1", title |-> "t2", author |-> None,
       published_date |-> <<"/", 13, 2, 2024>>, content |-> "c2",
       summary |-> "s2", keywords |-> <<"k2", "k3">>, category |-> Cat("gossip", "plain"),
       organization |-> [name |-> "B", email |-> "e1"], image_url |-> None],
      [url |-> "u1", title |-> "t3", author |-> "a3",
       published_date |-> <<"-", 2023, 2, 29>>, content |-> "c3",
       summary |-> "s3", keywords |-> <<>>, category |-> Cat("news", "plain"),
       organization |-> NoOrg, image_url |-> "i3"],
      [url |-> "u2", title |-> "t4", author |-> "a1",
       published_date |-> <<"/", 2, 13, 2024>>, content |-> "c4",
       summary |-> "s4", keywords |-> <<"k1">>, category |-> Cat("tech", "plain"),
       organization |-> NoOrg, image_url |-> None] }

NoRequest ==
    [url |-> None, title |-> None, author |-> None, published_date |-> NoDateStr,
     content |-> None, summary |-> None, keywords |-> <<>>,
     category |-> Cat(None, "plain"), organization |-> NoOrg, image_url |-> None]

VARIABLES
    organizations,  \* table organizations: committed rows [id, name, email]
    categories,     \* table categories: committed rows [id, name]
    articles,       \* table articles: committed rows
    embeddings,     \* table article_embeddings: committed rows [id, article_id, embedding]
    pc,             \* pc[p]: where request p is in save_article
    req,            \* req[p]: the SaveRequest of request p
    tx,             \* tx[p]: the session of request p (ids found, rows flushed or pending)
    preId,          \* preId[p]: id of the committed article with req[p].url when p began
    result,         \* result[p]: the HTTP response of request p
    trace,          \* trace[p]: what happened inside request p: how the embedding
                    \* call ended, how many embedding calls were made, and the
                    \* exception first raised, if any
    nSaves,         \* save requests received so far
    xpc,            \* where the extract request is in ArticleExtractor.extract
    xdata,          \* what the extract request holds: the page fetched, the LLM's answer
    xresult,        \* the HTTP response of the extract request
    xtrace,         \* the external calls the extract request made, and the
                    \* exception first raised, if any
    resp,           \* the response of the read request being answered
    col,            \* the Chroma collection "articles": its entries
                    \* [id, embedding, document, metadata] in the order kept
    clients,        \* clients[s]: the client handles of external service s: the
                    \* one held in the module global (0: None), how many were
                    \* constructed, how many times a handle was asked for
    allowed,        \* settings.allowed_categories of the running process
    life            \* the application's lifespan: where it is, how init_db ended,
                    \* how many times close_db was called, requests answered

saveVars == <<organizations, categories, articles, embeddings, pc, req, tx, preId,
              result, trace, nSaves>>

extractVars == <<xpc, xdata, xresult, xtrace>>

vars == <<saveVars, extractVars, resp, col, clients, allowed, life>>


(***************************************************************************)
(* Rows, ids and the database's visibility rules.                          *)
(***************************************************************************)
\* uuid4(): an id no row of the table, committed or in a running
\* transaction, carries
FreshId(used) ==
    CHOOSE i \in 1..(Cardinality(used) + 1) :
        i \notin used /\ \A j \in 1..(i - 1) : j \in used

EmptyTx ==
    [organization_id |-> NoId, category_id |-> NoId, article_id |-> NoId,
     published_date |-> NoDate, vector |-> None, dim |-> 0,
     orgRows |-> {}, catRows |-> {}, artRows |-> {}, artUpd |-> {},
     embRows |-> {}, embUpd |-> {}]

\* rows of the other running transactions, flushed and not yet committed
OthersOrgRows(p) == UNION {tx[q].orgRows : q \in Procs \ {p}}
OthersCatRows(p) == UNION {tx[q].catRows : q \in Procs \ {p}}
OthersArtRows(p) == UNION {tx[q].artRows : q \in Procs \ {p}}

AllOrgIds == {o.id : o \in organizations \cup UNION {tx[q].orgRows : q \in Procs}}
AllCatIds == {c.id : c \in categories \cup UNION {tx[q].catRows : q \in Procs}}
AllArtIds == {a.id : a \in articles \cup UNION {tx[q].artRows : q \in Procs}}
AllEmbIds == {e.id : e \in embeddings \cup UNION {tx[q].embRows : q \in Procs}}

\* Result.scalar_one_or_none(): the row, no row, or MultipleResultsFound
ScalarOneOrNone(rows) ==
    IF rows = {} THEN [exc |-> "none", found |-> FALSE, id |-> NoId]
    ELSE IF Cardinality(rows) = 1
        THEN [exc |-> "none", found |-> TRUE, id |-> (CHOOSE r \in rows : TRUE).id]
    ELSE [exc |-> "MultipleResultsFound", found |-> FALSE, id |-> NoId]

\* a table without its unique key
UniqueViolationUnchecked(committedKeys, key) == FALSE

\* The unique key of a table (articles.url, organizations.email,
\* categories.name): an INSERT whose key a committed row carries fails.
UniqueViolation(committedKeys, key) == key \in committedKeys

\* ... and one whose key another running transaction has inserted waits
\* for that transaction to end.
InsertBlocked(pendingKeys, key) == key \in pendingKeys

(***************************************************************************)
(* Exceptions: a raised exception is [type, msg]; NoExc is "no exception". *)
(***************************************************************************)
Exc(t, m) == [type |-> t, msg |-> m]
NoExc == Exc("none", "")

\* _get_or_create_organization: except Exception -> StorageError
OrganizationExcept(e) == Exc("StorageError", "Failed to create organization")

\* _get_or_create_category: except Exception -> StorageError
CategoryExcept(e) == Exc("StorageError", "Failed to create category")

\* save_article's handlers: StorageError re-raised, IntegrityError and every
\* other Exception wrapped in StorageError
SaveArticleExcept(e) ==
    IF e.type = "StorageError" THEN e
    ELSE IF e.type = "IntegrityError" THEN Exc("StorageError", "Database integrity error")
    ELSE Exc("StorageError", "Failed to save article")

\* the exception save_article raises for one raised at `where` inside it
SaveArticleRaises(where, e) ==
    SaveArticleExcept(
        IF where \in {"org_sel", "org_flush"} THEN OrganizationExcept(e)
        ELSE IF where \in {"cat_sel", "cat_flush"} THEN CategoryExcept(e)
        ELSE e)

\* the /save route: SaveResponse, or HTTPException(500) for StorageError;
\* any other exception escapes the handler
SaveRoute(e, id) ==
    IF e = NoExc THEN [status |-> 200, id |-> id, detail |-> "Article saved successfully", escaped |-> "none"]
    ELSE IF e.type = "StorageError" THEN [status |-> 500, id |-> NoId, detail |-> e.msg, escaped |-> "none"]
    ELSE [status |-> 0, id |-> NoId, detail |-> e.msg, escaped |-> e.type]

NoResult == [status |-> 0, id |-> NoId, detail |-> "", escaped |-> "none"]

NoTrace == [embed |-> "none", raised |-> "none", embeds |-> 0]

\* settings.openai_embedding_dimensions
EmbeddingDimensions == 1536

\* generate without its last handler: only OpenAIError becomes EmbeddingError
EmbedderGenerateUnwrapped(outcome, text) ==
    IF outcome = "ok" THEN [exc |-> NoExc, vector |-> text, dim |-> EmbeddingDimensions]
    ELSE IF outcome = "ok_other_length"
        THEN [exc |-> NoExc, vector |-> text, dim |-> EmbeddingDimensions - 1]
    ELSE IF outcome = "OpenAIError"
        THEN [exc |-> Exc("EmbeddingError", "OpenAI API error"), vector |-> None, dim |-> 0]
    ELSE [exc |-> Exc("Exception", "index out of range"), vector |-> None, dim |-> 0]

\* Embedder.generate: response.data[0].embedding as the service sent it,
\* whatever its length, or EmbeddingError for an OpenAIError and for any
\* other Exception
EmbedderGenerate(outcome, text) ==
    IF outcome = "ok" THEN [exc |-> NoExc, vector |-> text, dim |-> EmbeddingDimensions]
    ELSE IF outcome = "ok_other_length"
        THEN [exc |-> NoExc, vector |-> text, dim |-> EmbeddingDimensions - 1]
    ELSE IF outcome = "OpenAIError"
        THEN [exc |-> Exc("EmbeddingError", "OpenAI API error"), vector |-> None, dim |-> 0]
    ELSE [exc |-> Exc("EmbeddingError", "Unexpected embedding error"), vector |-> None, dim |-> 0]

\* how the embedding call ends when it is answered as asked, or fails
EmbedOutcomes == {"ok", "OpenAIError", "Exception"}

\* and when the service answers with a vector of another length
EmbedAnswers == EmbedOutcomes \cup {"ok_other_length"}

\* the column article_embeddings.embedding taking any vector
VectorColumnUnchecked(rows) == FALSE

\* the column article_embeddings.embedding, a vector of the configured
\* dimension: a row carrying a vector of another length is refused
VectorColumnRejects(rows) == \E e \in rows : e.dim # EmbeddingDimensions

\* save_article's inner handler: except EmbeddingError: pass
EmbeddingCaught(e) == e.type = "EmbeddingError"

(***************************************************************************)
(* Values of the extract and read requests.                                *)
(***************************************************************************)
\* a JSON key the LLM's answer does not carry
Absent == "ABSENT"

\* a keywords value: kind "list" (of strings), "csv" (a string of
\* comma-separated words), "json" (a string holding a JSON array), "number",
\* "null" or "absent"
Kw(k, items) == [kind |-> k, items |-> items]

\* an item of a keywords list: a str or a value of another type, with the
\* text str() gives for it
Item(t, v) == [t |-> t, v |-> v]

\* str(k)
Str(k) == Item("str", k.v)

\* what the LLM answers: text that is JSON or not, fenced in a markdown
\* code block or not, with the fields it carries
Llm(json, fence, title, content, summary, kw, category) ==
    [json |-> json, fence |-> fence, title |-> title, author |-> None,
     published_date |-> None, content |-> content, summary |-> summary,
     keywords |-> kw, category |-> category]

NoData == [len |-> 0, raw |-> Llm(FALSE, "none", Absent, Absent, Absent, Kw("absent", <<>>), Absent)]

\* ArticleContent (models/article.py)
NoContent ==
    [title |-> None, author |-> None, published_date |-> None, content |-> None,
     summary |-> None, keywords |-> <<>>, category |-> None]

NoExtractResult == [status |-> 0, data |-> NoContent, detail |-> "", escaped |-> "none"]

NoExtractTrace == [fetches |-> 0, completions |-> 0, raised |-> "none"]

\* the arguments of a read request
Args(id, q, limit, offset, threshold, where) ==
    [id |-> id, q |-> q, limit |-> limit, offset |-> offset, threshold |-> threshold,
     where |-> where]

NoArgs == Args(NoId, None, 0, 0, 0, None)

\* the response of a read request: the operation and its arguments, how
\* its external calls ended (ext), and the status, rows and error returned
Response(op, args, ext, status, body, detail, escaped) ==
    [op |-> op, args |-> args, ext |-> ext, status |-> status, body |-> body,
     detail |-> detail, escaped |-> escaped]

NoResp == Response("none", NoArgs, "none", 0, <<>>, "", "none")

(***************************************************************************)
(* ArticleStorage.save_article, one step per awaited database call.        *)
(***************************************************************************)
\* settings.allowed_categories, the default list
AllowedCategories ==
    {Cat(n, "plain") : n \in {"news", "tech", "sports", "business", "politics",
                              "entertainment", "health", "science"}}

\* the lists ALLOWED_CATEGORIES may configure: the default one, lists that
\* keep "news", lists that do not, and one whose entry is not lower-case
AllowLists ==
    {AllowedCategories,
     {Cat("news", "plain")},
     {Cat(n, "plain") : n \in {"news", "tech"}},
     {Cat(n, "plain") : n \in {"tech", "sports"}},
     {Cat("tech", "mixed")}}

\* the external services a handle is kept for: the backend's storage,
\* extractor and embedder, the Chroma client, and the MCP server's Supabase
\* and OpenAI clients
Services == {"storage", "extractor", "embedder", "chroma", "mcp_supabase", "mcp_openai"}

\* _storage = None, _extractor = None, _embedder = None; nothing constructed
NoClient == [held |-> 0, made |-> 0, calls |-> 0]

\* the application object is created, its lifespan not yet entered
NotStarted == [pc |-> "created", init_db |-> "none", close_db |-> 0, served |-> 0]

Init ==
    /\ organizations = {}
    /\ categories = {}
    /\ articles = {}
    /\ embeddings = {}
    /\ pc = [p \in Procs |-> "idle"]
    /\ req = [p \in Procs |-> NoRequest]
    /\ tx = [p \in Procs |-> EmptyTx]
    /\ preId = [p \in Procs |-> NoId]
    /\ result = [p \in Procs |-> NoResult]
    /\ trace = [p \in Procs |-> NoTrace]
    /\ nSaves = 0
    /\ xpc = "idle"
    /\ xdata = NoData
    /\ xresult = NoExtractResult
    /\ xtrace = NoExtractTrace
    /\ resp = NoResp
    /\ col = <<>>
    /\ clients = [s \in Services |-> NoClient]
    /\ allowed = AllowedCategories
    /\ life = NotStarted

Tables == <<organizations, categories, articles, embeddings>>

otherVars == <<extractVars, resp, col, clients, allowed, life>>

\* Article(...) of the insert branch
NewArticle(id, r, published_date, category_id, organization_id) ==
    [id |-> id, url |-> r.url, title |-> r.title, author |-> r.author,
     published_date |-> published_date, content |-> r.content,
     summary |-> r.summary, keywords |-> r.keywords,
     category_id |-> category_id, organization_id |-> organization_id,
     image_url |-> r.image_url]

\* the update branch answering with an id of its own
ExistingIdFresh(existing) == existing.id + 1

\* article_id = existing.id
ExistingId(existing) == existing.id

\* the assignments of the update branch
UpdatedArticle(existing, r, published_date, category_id, organization_id) ==
    [existing EXCEPT
        !.title = r.title, !.author = r.author,
        !.published_date = published_date, !.content = r.content,
        !.summary = r.summary, !.keywords = r.keywords,
        !.category_id = category_id, !.organization_id = organization_id,
        !.image_url = r.image_url]

\* the request ends with exception e raised at its present step: the
\* transaction is rolled back and the route answers
\* a failure that leaves the rows flushed so far in the tables
FailKeepingFlushed(p, e) ==
    /\ pc' = [pc EXCEPT ![p] = "done"]
    /\ tx' = [tx EXCEPT ![p] = EmptyTx]
    /\ result' = [result EXCEPT ![p] = SaveRoute(SaveArticleRaises(pc[p], e), NoId)]
    /\ trace' = [trace EXCEPT ![p].raised = e.type]
    /\ organizations' = organizations \cup tx[p].orgRows
    /\ categories' = categories \cup tx[p].catRows
    /\ articles' = articles \cup tx[p].artRows
    /\ UNCHANGED <<embeddings, req, preId, nSaves>>

Fail(p, e) ==
    /\ pc' = [pc EXCEPT ![p] = "done"]
    /\ tx' = [tx EXCEPT ![p] = EmptyTx]
    /\ result' = [result EXCEPT ![p] = SaveRoute(SaveArticleRaises(pc[p], e), NoId)]
    /\ trace' = [trace EXCEPT ![p].raised = e.type]
    /\ UNCHANGED <<Tables, req, preId, nSaves>>

Goto(p, to, newTx) ==
    /\ pc' = [pc EXCEPT ![p] = to]
    /\ tx' = [tx EXCEPT ![p] = newTx]
    /\ UNCHANGED <<Tables, req, preId, result, trace, nSaves>>

\* POST /articles/save arrives: the handler calls storage.save_article,
\* which opens a session and a transaction.  A new request takes the first
\* free slot.
SaveBegin(p, r) ==
    /\ pc[p] = "idle"
    /\ \A q \in Procs : q < p => pc[q] # "idle"
    /\ nSaves < MaxSaves
    /\ nSaves' = nSaves + 1
    /\ pc' = [pc EXCEPT ![p] = IF r.organization = NoOrg THEN "cat_sel" ELSE "org_sel"]
    /\ req' = [req EXCEPT ![p] = r]
    /\ tx' = [tx EXCEPT ![p] = EmptyTx]
    /\ preId' = [preId EXCEPT ![p] =
                    ScalarOneOrNone({a \in articles : a.url = r.url}).id]
    /\ result' = [result EXCEPT ![p] = NoResult]
    /\ trace' = [trace EXCEPT ![p] = NoTrace]
    /\ UNCHANGED Tables

\* _get_or_create_organization (entered when the request carries an
\* organization; without one it returns None at once): select by email
OrgSelect(p) ==
    /\ pc[p] = "org_sel"
    /\ LET found == ScalarOneOrNone(
                {o \in organizations : o.email = req[p].organization.email})
       IN  IF found.exc # "none" THEN Fail(p, Exc(found.exc, ""))
           ELSE IF found.found
               THEN Goto(p, "cat_sel", [tx[p] EXCEPT !.organization_id = found.id])
           ELSE Goto(p, "org_flush", tx[p])

\* session.add(org); flush
OrgFlush(p) ==
    /\ pc[p] = "org_flush"
    /\ ~InsertBlocked({o.email : o \in OthersOrgRows(p)}, req[p].organization.email)
    /\ IF UniqueViolation({o.email : o \in organizations}, req[p].organization.email)
       THEN Fail(p, Exc("IntegrityError", "organizations.email"))
       ELSE LET id == FreshId(AllOrgIds)
            IN  Goto(p, "cat_sel",
                     [tx[p] EXCEPT
                        !.organization_id = id,
                        !.orgRows = {[id |-> id, name |-> req[p].organization.name,
                                      email |-> req[p].organization.email]}])

\* _get_or_create_category: normalize, select by name
CategorySelect(p) ==
    /\ pc[p] = "cat_sel"
    /\ LET name == NormalizeCategory(req[p].category)
           found == ScalarOneOrNone({c \in categories : c.name = name})
       IN  IF found.exc # "none" THEN Fail(p, Exc(found.exc, ""))
           ELSE IF found.found
               THEN Goto(p, "art_sel", [tx[p] EXCEPT !.category_id = found.id])
           ELSE Goto(p, "cat_flush", tx[p])

\* session.add(category); flush
CategoryFlush(p) ==
    /\ pc[p] = "cat_flush"
    /\ LET name == NormalizeCategory(req[p].category)
       IN  /\ ~InsertBlocked({c.name : c \in OthersCatRows(p)}, name)
           /\ IF UniqueViolation({c.name : c \in categories}, name)
              THEN Fail(p, Exc("IntegrityError", "categories.name"))
              ELSE LET id == FreshId(AllCatIds)
                   IN  Goto(p, "art_sel",
                            [tx[p] EXCEPT
                                !.category_id = id,
                                !.catRows = {[id |-> id, name |-> name]}])

\* self.embedder.generate(request.summary), a synchronous call made as soon
\* as the article row is set: an EmbeddingError is passed over and the
\* transaction goes on to commit, a vector goes on to the embedding row
Embed(p, t, outcome) ==
    LET g == EmbedderGenerate(outcome, req[p].summary)
    IN  /\ UNCHANGED <<Tables, req, preId, nSaves>>
        /\ IF g.exc = NoExc \/ EmbeddingCaught(g.exc)
           THEN /\ pc' = [pc EXCEPT ![p] = IF g.exc = NoExc THEN "emb_sel" ELSE "commit"]
                /\ tx' = [tx EXCEPT ![p] = [t EXCEPT !.vector = g.vector, !.dim = g.dim]]
                /\ trace' = [trace EXCEPT ![p].embed = outcome, ![p].embeds = @ + 1]
                /\ UNCHANGED result
           ELSE /\ pc' = [pc EXCEPT ![p] = "done"]
                /\ tx' = [tx EXCEPT ![p] = EmptyTx]
                /\ trace' = [trace EXCEPT ![p] = [embed |-> outcome, raised |-> g.exc.type,
                                                   embeds |-> @.embeds + 1]]
                /\ result' = [result EXCEPT ![p] =
                                SaveRoute(SaveArticleRaises(pc[p], g.exc), NoId)]

\* _parse_date, then select the article by url; the update branch assigns
\* the fields of the row found and generates the embedding
ArticleSelect(p, outcome) ==
    /\ pc[p] = "art_sel"
    /\ LET date == ParseDate(req[p].published_date)
           rows == {a \in articles : a.url = req[p].url}
           found == ScalarOneOrNone(rows)
       IN  IF found.exc # "none" THEN Fail(p, Exc(found.exc, ""))
           ELSE IF found.found
               THEN Embed(p,
                         [tx[p] EXCEPT
                            !.published_date = date,
                            !.article_id = ExistingId(CHOOSE a \in rows : TRUE),
                            !.artUpd = {UpdatedArticle(CHOOSE a \in rows : TRUE, req[p], date,
                                            tx[p].category_id, tx[p].organization_id)}],
                         outcome)
           ELSE Goto(p, "art_flush", [tx[p] EXCEPT !.published_date = date])

\* the insert branch: session.add(article); flush; generate the embedding
ArticleFlush(p, outcome) ==
    /\ pc[p] = "art_flush"
    /\ ~InsertBlocked({a.url : a \in OthersArtRows(p)}, req[p].url)
    /\ IF UniqueViolation({a.url : a \in articles}, req[p].url)
       THEN Fail(p, Exc("IntegrityError", "articles.url"))
       ELSE LET id == FreshId(AllArtIds)
            IN  Embed(p,
                      [tx[p] EXCEPT
                        !.article_id = id,
                        !.artRows = {NewArticle(id, req[p], tx[p].published_date,
                                        tx[p].category_id, tx[p].organization_id)}],
                      outcome)

\* select the article's embedding row: update it, or add a new one
EmbeddingSelect(p) ==
    /\ pc[p] = "emb_sel"
    /\ LET rows == {e \in embeddings : e.article_id = tx[p].article_id}
           found == ScalarOneOrNone(rows)
       IN  IF found.exc # "none" THEN Fail(p, Exc(found.exc, ""))
           ELSE IF found.found
               THEN Goto(p, "commit",
                         [tx[p] EXCEPT !.embUpd =
                            {[(CHOOSE e \in rows : TRUE) EXCEPT !.embedding = tx[p].vector,
                                                               !.dim = tx[p].dim]}])
           ELSE Goto(p, "commit",
                     [tx[p] EXCEPT !.embRows =
                        {[id |-> FreshId(AllEmbIds), article_id |-> tx[p].article_id,
                          embedding |-> tx[p].vector, dim |-> tx[p].dim]}])

\* an update that removes the row it was to replace
ReplaceRemoving(rows, upd) == {r \in rows : r.id \notin {u.id : u \in upd}}

\* rows with the rows of `upd` in place of those carrying the same id
Replace(rows, upd) == {r \in rows : r.id \notin {u.id : u \in upd}} \cup upd

\* leaving session.begin(): flush what is pending and commit; save_article
\* returns article_id
Commit(p) ==
    /\ pc[p] = "commit"
    /\ IF VectorColumnRejects(tx[p].embUpd \cup tx[p].embRows)
       THEN Fail(p, Exc("DataError", "different vector dimensions"))
       ELSE /\ organizations' = organizations \cup tx[p].orgRows
            /\ categories' = categories \cup tx[p].catRows
            /\ articles' = Replace(articles, tx[p].artUpd) \cup tx[p].artRows
            /\ embeddings' = Replace(embeddings, tx[p].embUpd) \cup tx[p].embRows
            /\ pc' = [pc EXCEPT ![p] = "done"]
            /\ tx' = [tx EXCEPT ![p] = EmptyTx]
            /\ result' = [result EXCEPT ![p] = SaveRoute(NoExc, tx[p].article_id)]
            /\ UNCHANGED <<req, preId, trace, nSaves>>

DbSteps == {"org_sel", "org_flush", "cat_sel", "cat_flush", "art_sel", "art_flush",
            "emb_sel", "commit"}

\* the database fails the call the request is making
DbFail(p) ==
    /\ pc[p] \in DbSteps
    /\ Fail(p, Exc("OperationalError", "connection lost"))

\* the response is sent
SaveEnd(p) ==
    /\ pc[p] = "done"
    /\ pc' = [pc EXCEPT ![p] = "idle"]
    /\ req' = [req EXCEPT ![p] = NoRequest]
    /\ preId' = [preId EXCEPT ![p] = NoId]
    /\ result' = [result EXCEPT ![p] = NoResult]
    /\ trace' = [trace EXCEPT ![p] = NoTrace]
    /\ UNCHANGED <<Tables, tx, nSaves>>

\* one step of save request p, the embedding service answering with one
\* of `answers`
SaveStepWith(p, answers) ==
    /\ \/ \E r \in Requests : SaveBegin(p, r)
       \/ OrgSelect(p)
       \/ OrgFlush(p)
       \/ CategorySelect(p)
       \/ CategoryFlush(p)
       \/ \E o \in answers : ArticleSelect(p, o)
       \/ \E o \in answers : ArticleFlush(p, o)
       \/ EmbeddingSelect(p)
       \/ Commit(p)
       \/ DbFail(p)
       \/ SaveEnd(p)
    /\ UNCHANGED otherVars

\* the embedding service answering as asked, or failing
SaveStep(p) == SaveStepWith(p, EmbedOutcomes)

\* the embedding service answering with a vector of any length, or failing
SaveStepAnyLength(p) == SaveStepWith(p, EmbedAnswers)

\* the save requests of the server, interleaved at their awaits
Next == \E p \in Procs : SaveStep(p)

Spec == Init /\ [][Next]_vars

(***************************************************************************)
(* ArticleExtractor (services/extractor.py) and the /extract route.        *)
(***************************************************************************)
\* len(content) < 100 is "too short"
MinContentLen == 100

\* the fallback category of _parse_extracted_content
DefaultCategory == Cat("news", "plain")

\* how the reader API answers the GET
FetchOutcomes ==
    {[kind |-> "response", len |-> n] : n \in {0, MinContentLen - 1, MinContentLen}}
    \cup {[kind |-> k, len |-> 0] : k \in {"HTTPStatusError", "RequestError", "Exception"}}

\* what the LLM may answer
LlmAnswers ==
    { Llm(TRUE, "json", "T", "body", "sum", Kw("list", <<Item("str", "k1"), Item("str", "k2")>>), Cat("tech", "plain")),
      Llm(TRUE, "none", "T", "body", "sum", Kw("csv", <<Item("str", "k1"), Item("str", "k2")>>), Cat("tech", "mixed")),
      Llm(TRUE, "plain", "T", "body", "sum", Kw("json", <<Item("str", "k1")>>), Cat("gossip", "plain")),
      Llm(TRUE, "none", Absent, "body", "sum", Kw("list", <<>>), Cat("tech", "plain")),
      Llm(TRUE, "none", None, "body", "sum", Kw("list", <<>>), Cat("tech", "plain")),
      Llm(TRUE, "none", "T", "body", "", Kw("list", <<Item("str", "k1")>>), Cat("tech", "plain")),
      Llm(TRUE, "none", "T", None, "sum", Kw("list", <<Item("str", "k1")>>), Cat("tech", "plain")),
      Llm(TRUE, "none", "T", "body", "sum", Kw("null", <<>>), Cat(None, "plain")),
      Llm(TRUE, "none", "T", "body", "sum", Kw("absent", <<>>), Cat("tech", "plain")),
      Llm(TRUE, "none", "T", "body", "sum", Kw("list", <<Item("str", "k1")>>), Cat(Absent, "plain")),
      Llm(TRUE, "none", "T", "body", "sum", Kw("list", <<Item("int", "7"), Item("str", "k1")>>),
          Cat("tech", "plain")),
      Llm(TRUE, "none", "T", Absent, "sum", Kw("list", <<Item("str", "k1")>>), Cat("tech", "plain")),
      Llm(TRUE, "none", "T", "body", Absent, Kw("list", <<Item("str", "k1")>>), Cat("tech", "plain")),
      Llm(FALSE, "none", "T", "body", "sum", Kw("list", <<Item("str", "k1")>>), Cat("tech", "plain")) }

\* how the completion call ends
CompletionOutcomes ==
    {[kind |-> "response", raw |-> a] : a \in LlmAnswers}
    \cup {[kind |-> k, raw |-> NoData.raw] : k \in {"GroqError", "Exception"}}

\* a fetch_url_content that returns whatever text the reader sent
FetchUrlContentAnyLength(o) ==
    IF o.kind = "HTTPStatusError" THEN Exc("ExtractionError", "HTTP error fetching URL")
    ELSE IF o.kind = "RequestError" THEN Exc("ExtractionError", "Request error fetching URL")
    ELSE IF o.kind = "Exception" THEN Exc("ExtractionError", "Unexpected error fetching URL")
    ELSE NoExc

\* fetch_url_content: every failure, the too-short page included, leaves as
\* ExtractionError
FetchUrlContent(o) ==
    IF o.kind = "HTTPStatusError" THEN Exc("ExtractionError", "HTTP error fetching URL")
    ELSE IF o.kind = "RequestError" THEN Exc("ExtractionError", "Request error fetching URL")
    ELSE IF o.kind = "Exception" THEN Exc("ExtractionError", "Unexpected error fetching URL")
    ELSE IF o.len = 0 \/ o.len < MinContentLen
        THEN Exc("ExtractionError", "Unexpected error fetching URL")
    ELSE NoExc

\* the required fields, in the order the loop visits them
Missing(raw) ==
    \/ raw.title = Absent
    \/ raw.content = Absent
    \/ raw.summary = Absent
    \/ raw.keywords.kind = "absent"
    \/ raw.category.name = Absent

Falsy(v) == v = None \/ v = ""

\* a _parse_extracted_content whose loop does not look for empty fields
ParseExtractedContentEmptyPassed(raw) ==
    IF ~raw.json
        THEN [exc |-> Exc("ExtractionError", "Failed to parse JSON response"), data |-> NoContent]
    ELSE IF Missing(raw) \/ raw.content = None \/ raw.summary = None
        THEN [exc |-> Exc("ExtractionError", "Failed to parse extracted content"), data |-> NoContent]
    ELSE IF raw.keywords.kind \notin {"list", "csv", "json"}
        THEN [exc |-> Exc("ExtractionError", "Failed to parse extracted content"), data |-> NoContent]
    ELSE IF raw.title = None
        THEN [exc |-> Exc("ExtractionError", "Failed to parse extracted content"), data |-> NoContent]
    ELSE [exc |-> NoExc,
          data |-> [title |-> raw.title, author |-> raw.author,
                    published_date |-> raw.published_date, content |-> raw.content,
                    summary |-> raw.summary,
                    keywords |-> [i \in 1..Len(raw.keywords.items) |->
                                    Str(raw.keywords.items[i])],
                    category |-> IF raw.category \in allowed
                                 THEN raw.category ELSE DefaultCategory]]

\* _parse_extracted_content: [exc, data]
ParseExtractedContent(raw) ==
    IF ~raw.json
        THEN [exc |-> Exc("ExtractionError", "Failed to parse JSON response"), data |-> NoContent]
    ELSE IF Missing(raw) \/ Falsy(raw.content) \/ Falsy(raw.summary)
        THEN [exc |-> Exc("ExtractionError", "Failed to parse extracted content"), data |-> NoContent]
    ELSE IF raw.keywords.kind \notin {"list", "csv", "json"}
        \* [str(k) for k in data["keywords"]] raises TypeError
        THEN [exc |-> Exc("ExtractionError", "Failed to parse extracted content"), data |-> NoContent]
    ELSE IF raw.title = None
        \* ArticleContent(title=None) fails validation
        THEN [exc |-> Exc("ExtractionError", "Failed to parse extracted content"), data |-> NoContent]
    ELSE [exc |-> NoExc,
          data |-> [title |-> raw.title, author |-> raw.author,
                    published_date |-> raw.published_date, content |-> raw.content,
                    summary |-> raw.summary,
                    keywords |-> [i \in 1..Len(raw.keywords.items) |->
                                    Str(raw.keywords.items[i])],
                    category |-> IF raw.category \in allowed
                                 THEN raw.category ELSE DefaultCategory]]

\* extract without its last handler
ExtractExceptNoCatchAll(e) ==
    IF e.type = "GroqError" THEN Exc("ExtractionError", "Groq API error")
    ELSE e

\* extract's handlers: GroqError wrapped, ExtractionError re-raised, every
\* other Exception wrapped
ExtractExcept(e) ==
    IF e.type = "GroqError" THEN Exc("ExtractionError", "Groq API error")
    ELSE IF e.type = "ExtractionError" THEN e
    ELSE Exc("ExtractionError", "Unexpected extraction error")

\* the /extract route: ExtractResponse, or HTTPException(500) for
\* ExtractionError; any other exception escapes the handler
ExtractRoute(e, data) ==
    IF e = NoExc THEN [status |-> 200, data |-> data, detail |-> "", escaped |-> "none"]
    ELSE IF e.type = "ExtractionError"
        THEN [status |-> 500, data |-> NoContent, detail |-> e.msg, escaped |-> "none"]
    ELSE [status |-> 0, data |-> NoContent, detail |-> e.msg, escaped |-> e.type]

\* extract going back to its first step after an exception
ExtractFailRetry(e) ==
    /\ xpc' = "fetch"
    /\ xdata' = NoData
    /\ xresult' = NoExtractResult

\* the extract request ends with exception e
ExtractFail(e) ==
    /\ xpc' = "done"
    /\ xdata' = NoData
    /\ xresult' = ExtractRoute(ExtractExcept(e), NoContent)

\* POST /articles/extract arrives
ExtractBegin ==
    /\ xpc = "idle"
    /\ xpc' = "fetch"
    /\ UNCHANGED <<xdata, xresult, xtrace>>

\* Step 1: the reader GET returns
Fetch(o) ==
    /\ xpc = "fetch"
    /\ LET e == FetchUrlContent(o)
       IN  IF e = NoExc
           THEN /\ xpc' = "llm"
                /\ xdata' = [xdata EXCEPT !.len = o.len]
                /\ xtrace' = [xtrace EXCEPT !.fetches = @ + 1]
                /\ UNCHANGED xresult
           ELSE /\ ExtractFail(e)
                /\ xtrace' = [xtrace EXCEPT !.fetches = @ + 1,
                                !.raised = IF o.kind = "response" THEN "ExtractionError" ELSE o.kind]

\* Steps 2 and 3: the prompt is built and the completion call returns
Complete(o) ==
    /\ xpc = "llm"
    /\ IF o.kind = "response"
       THEN /\ xpc' = "parse"
            /\ xdata' = [xdata EXCEPT !.raw = o.raw]
            /\ xtrace' = [xtrace EXCEPT !.completions = @ + 1]
            /\ UNCHANGED xresult
       ELSE /\ ExtractFail(Exc(o.kind, "completion failed"))
            /\ xtrace' = [xtrace EXCEPT !.completions = @ + 1, !.raised = o.kind]

\* Step 4: the answer is parsed and the route responds
Parse ==
    /\ xpc = "parse"
    /\ LET r == ParseExtractedContent(xdata.raw)
       IN  IF r.exc = NoExc
           THEN /\ xpc' = "done"
                /\ xdata' = NoData
                /\ xresult' = ExtractRoute(NoExc, r.data)
                /\ UNCHANGED xtrace
           ELSE /\ ExtractFail(r.exc)
                /\ xtrace' = [xtrace EXCEPT !.raised = "ExtractionError"]

\* the response is sent
ExtractEnd ==
    /\ xpc = "done"
    /\ xpc' = "idle"
    /\ xdata' = NoData
    /\ xresult' = NoExtractResult
    /\ xtrace' = NoExtractTrace

ExtractStep ==
    /\ \/ ExtractBegin
       \/ \E o \in FetchOutcomes : Fetch(o)
       \/ \E o \in CompletionOutcomes : Complete(o)
       \/ Parse
       \/ ExtractEnd
    /\ UNCHANGED <<saveVars, resp, col, clients, allowed, life>>

(***************************************************************************)
(* GET /articles/{article_id}: ArticleStorage.get_article and its route.   *)
(***************************************************************************)
\* ArticleStorage.get_article: the row, None, or StorageError when the
\* lookup fails
StorageGetArticle(arts, id, db) ==
    IF db # "ok" THEN [exc |-> Exc("StorageError", "Failed to get article"), rows |-> {}]
    ELSE LET found == ScalarOneOrNone({a \in arts : a.id = id})
         IN  IF found.exc # "none"
             THEN [exc |-> Exc("StorageError", "Failed to get article"), rows |-> {}]
             ELSE [exc |-> NoExc, rows |-> {a \in arts : a.id = id}]

\* the rows of a set holding at most one
AsList(rows) == IF rows = {} THEN <<>> ELSE <<CHOOSE r \in rows : TRUE>>

\* a handler that catches every Exception, its own HTTPException included
GetArticleRouteCatchAll(arts, id, db) ==
    LET got == StorageGetArticle(arts, id, db)
        args == [NoArgs EXCEPT !.id = id]
    IN  IF got.exc # NoExc \/ got.rows = {}
        THEN Response("get", args, db, 500, <<>>, "error", "none")
        ELSE Response("get", args, db, 200, AsList(got.rows), "", "none")

\* the route: 404 when get_article returns None, 500 for StorageError
GetArticleRoute(arts, id, db) ==
    LET got == StorageGetArticle(arts, id, db)
        args == [NoArgs EXCEPT !.id = id]
    IN  IF got.exc = NoExc
        THEN IF got.rows = {}
             THEN Response("get", args, db, 404, <<>>, "Article not found", "none")
             ELSE Response("get", args, db, 200, AsList(got.rows), "", "none")
        ELSE IF got.exc.type = "StorageError"
             THEN Response("get", args, db, 500, <<>>, got.exc.msg, "none")
        ELSE Response("get", args, db, 0, <<>>, got.exc.msg, got.exc.type)

\* the ids a client may ask for: those stored, and one more
AskedIds == 1..(Cardinality(articles) + 1)

GetArticle(id, db) ==
    /\ resp.op = "none"
    /\ resp' = GetArticleRoute(articles, id, db)
    /\ UNCHANGED <<saveVars, extractVars, col, clients, allowed, life>>

\* the response of a read request is sent
RespEnd ==
    /\ resp.op # "none"
    /\ resp' = NoResp
    /\ UNCHANGED <<saveVars, extractVars, col, clients, allowed, life>>

(***************************************************************************)
(* The server handling one request after another: save, extract, get.      *)
(***************************************************************************)
Quiet == xpc = "idle" /\ resp.op = "none" /\ \A p \in Procs : pc[p] = "idle"

NextSeq ==
    \/ (xpc = "idle" /\ resp.op = "none" /\ SaveStepAnyLength(1))
    \/ (pc[1] = "idle" /\ resp.op = "none" /\ ExtractStep)
    \/ (Quiet /\ \E id \in AskedIds, db \in {"ok", "failed"} : GetArticle(id, db))
    \/ RespEnd

SpecSeq == Init /\ [][NextSeq]_vars

(***************************************************************************)
(* Vectors and their similarity.  A vector is named by the text it embeds, *)
(* Point places it on a line, and similarities are counted in tenths.      *)
(***************************************************************************)
\* similarity 1.0
SimOne == 10

\* the embedding model: where a text lies
Point(text) ==
    CASE text = "s1" -> 1
      [] text = "q1" -> 2
      [] text = "s2" -> 4
      [] text = "s3" -> 6
      [] text = "s4" -> 9
      [] OTHER -> 0

Distance(a, b) == IF a < b THEN b - a ELSE a - b

Min(a, b) == IF a < b THEN a ELSE b

\* S being a set of [rank, row]: its rows in the orders of ascending rank,
\* rows of one rank in any order
Orderings(S) ==
    {[i \in 1..Cardinality(S) |-> f[i].row] :
        f \in {g \in [1..Cardinality(S) -> S] :
                  /\ \A i, j \in 1..Cardinality(S) : i # j => g[i] # g[j]
                  /\ \A i, j \in 1..Cardinality(S) : i < j => g[i].rank <= g[j].rank}}

\* s[from:to] of Python
Slice(s, from, to) == SubSeq(s, from + 1, Min(to, Len(s)))

\* the first n of s
FirstN(s, n) == SubSeq(s, 1, Min(n, Len(s)))

\* largest limit and offset a read request is sent with
MaxLimit == 2
MaxOffset == 2

Limits == 1..MaxLimit
Offsets == 0..MaxOffset

\* similarity thresholds a search is sent with, in tenths
Thresholds == {0, 8}

\* query texts
Queries == {"q1"}

(***************************************************************************)
(* store/chroma_store.py.  A string of metadata is the sequence of its     *)
(* pieces, so that joining a list is something the store does.             *)
(***************************************************************************)
\* metadata values as a caller passes them: a string, None, or a list
StrVal(x) == [kind |-> "str", items |-> <<x>>]
NoneVal == [kind |-> "none", items |-> <<>>]
ListVal(xs) == [kind |-> "list", items |-> xs]

RECURSIVE Join(_)
\* ",".join(items)
Join(items) ==
    IF Len(items) = 0 THEN <<>>
    ELSE IF Len(items) = 1 THEN <<items[1]>>
    ELSE <<items[1], ",">> \o Join(Tail(items))

\* _metadata_to_str
MetadataToStr(v) ==
    IF v.kind = "none" THEN <<>>
    ELSE IF v.kind = "list" THEN Join(v.items)
    ELSE v.items

\* what add is called with
ChromaDocs ==
    { [id |-> "a", embedding |-> "s1", document |-> "d1",
       metadata |-> [category |-> StrVal("tech"), keywords |-> ListVal(<<"k1", "k2">>),
                     url |-> StrVal("u1")]],
      [id |-> "b", embedding |-> "s3", document |-> "d2",
       metadata |-> [category |-> StrVal("tech"), keywords |-> NoneVal,
                     url |-> StrVal("u1")]],
      [id |-> "c", embedding |-> "s4", document |-> "d3",
       metadata |-> [category |-> StrVal("news"), keywords |-> ListVal(<<>>),
                     url |-> StrVal("u2")]],
      [id |-> "a", embedding |-> "s2", document |-> "d4",
       metadata |-> [category |-> StrVal("news"), keywords |-> ListVal(<<"k3">>),
                     url |-> StrVal("u1")]] }

\* a `where` of one equality, and none
NoWhere == [key |-> None, value |-> <<>>]
Wheres == {NoWhere, [key |-> "category", value |-> <<"tech">>]}

Matches(e, where) ==
    \/ where = NoWhere
    \/ /\ where.key \in DOMAIN e.metadata
       /\ e.metadata[where.key] = where.value

\* col.upsert of one entry: the entry with this id is replaced where it
\* stands, a new id goes to the end
Upsert(c, e) ==
    IF \E i \in 1..Len(c) : c[i].id = e.id
    THEN [i \in 1..Len(c) |-> IF c[i].id = e.id THEN e ELSE c[i]]
    ELSE Append(c, e)

\* add
Add(c, d) ==
    Upsert(c, [id |-> d.id, embedding |-> d.embedding, document |-> d.document,
               metadata |-> [k \in DOMAIN d.metadata |-> MetadataToStr(d.metadata[k])]])

\* col.get(where, limit): the first `limit` entries that match
ColGet(c, where, limit) ==
    FirstN(SelectSeq(c, LAMBDA e : Matches(e, where)), limit)

\* col.query: the n_results matching entries nearest to the query, nearest
\* first, each with its distance; entries equally far come in any order
ColQuery(c, query_embedding, n_results, where) ==
    LET hits == {[entry |-> c[i], distance |-> Distance(Point(query_embedding),
                                                       Point(c[i].embedding))] :
                    i \in {j \in 1..Len(c) : Matches(c[j], where)}}
    IN  {FirstN(o, n_results) :
            o \in Orderings({[rank |-> h.distance, row |-> h] : h \in hits})}

\* the loop of query putting the last hit first
QueryRowsReversed(res) ==
    [i \in 1..Len(res) |->
        LET h == res[Len(res) + 1 - i]
        IN  [id |-> h.entry.id, document |-> h.entry.document,
             metadata |-> h.entry.metadata, distance |-> h.distance,
             similarity |-> SimOne - h.distance]]

\* the loop of query: one row per hit, in the order of the hits
QueryRows(res) ==
    [i \in 1..Len(res) |->
        [id |-> res[i].entry.id, document |-> res[i].entry.document,
         metadata |-> res[i].entry.metadata, distance |-> res[i].distance,
         similarity |-> SimOne - res[i].distance]]

\* list_articles: get(limit = offset + limit), then the slice
ListArticles(c, where, limit, offset) ==
    LET res == ColGet(c, where, offset + limit)
        ids == Slice(res, offset, offset + limit)
    IN  [i \in 1..Len(ids) |->
            [id |-> ids[i].id, document |-> ids[i].document, metadata |-> ids[i].metadata]]

\* the dict get and get_by_url build of the first entry found, or None
FirstFound(res) ==
    IF Len(res) = 0 THEN <<>>
    ELSE <<[id |-> res[1].id, document |-> res[1].document, metadata |-> res[1].metadata]>>

\* get: col.get(ids=[id])
Get(c, id) == FirstFound(SelectSeq(c, LAMBDA e : e.id = id))

\* get_by_url: col.get(where={"url": url}, limit=1)
GetByUrl(c, url) == FirstFound(ColGet(c, [key |-> "url", value |-> <<url>>], 1))

\* update as an upsert of the arguments alone
UpdateOverwriting(c, id, embedding, document, metadata) ==
    IF Get(c, id) = <<>> THEN c
    ELSE Upsert(c, [id |-> id, embedding |-> embedding, document |-> document,
                    metadata |-> [k \in {p[1] : p \in metadata} |->
                                    MetadataToStr((CHOOSE p \in metadata : p[1] = k)[2])]])

\* update: nothing for an id not stored; else the stored embedding, document
\* and metadata with the arguments given laid over them, put back under
\* the id.  `metadata` is the set of <<key, value>> of the dict, {} for None
Update(c, id, embedding, document, metadata) ==
    IF Get(c, id) = <<>> THEN c
    ELSE LET current == SelectSeq(c, LAMBDA e : e.id = id)[1]
             emb == IF embedding # None THEN embedding ELSE current.embedding
             doc == IF document # None THEN document ELSE current.document
             meta == [k \in DOMAIN current.metadata \cup {p[1] : p \in metadata} |->
                        IF \E p \in metadata : p[1] = k
                        THEN MetadataToStr((CHOOSE p \in metadata : p[1] = k)[2])
                        ELSE current.metadata[k]]
         IN  Upsert(c, [id |-> id, embedding |-> emb, document |-> doc, metadata |-> meta])

\* what update is called with: an id add was called with and one it was not
UpdateIds == {"a", "z"}
UpdateEmbeddings == {None, "s2"}
UpdateDocuments == {None, "d9"}
UpdateMetadatas == {{}, {<<"category", StrVal("sports")>>}}

\* the urls get_by_url is asked for
Urls == {"u1", "u2", "u3"}

\* delete: col.delete of one id
Delete(c, id) == SelectSeq(c, LAMBDA e : e.id # id)

\* the ids add is called with
ChromaIds == {d.id : d \in ChromaDocs}

ChromaDelete(id) ==
    /\ col' = Delete(col, id)
    /\ UNCHANGED <<saveVars, extractVars, resp, clients, allowed, life>>

ChromaAdd(d) ==
    /\ col' = Add(col, d)
    /\ UNCHANGED <<saveVars, extractVars, resp, clients, allowed, life>>

ChromaUpdate(id, embedding, document, metadata) ==
    /\ col' = Update(col, id, embedding, document, metadata)
    /\ UNCHANGED <<saveVars, extractVars, resp, clients, allowed, life>>

ChromaGetByUrl(url) ==
    /\ resp.op = "none"
    /\ resp' = Response("chroma_get_by_url", [NoArgs EXCEPT !.q = url], "ok", 200,
                        GetByUrl(col, url), "", "none")
    /\ UNCHANGED <<saveVars, extractVars, col, clients, allowed, life>>

ChromaQuery(q, n, where) ==
    /\ resp.op = "none"
    /\ \E res \in ColQuery(col, q, n, where) :
          resp' = Response("chroma_query",
                           [NoArgs EXCEPT !.q = q, !.limit = n, !.where = where],
                           "ok", 200, QueryRows(res), "", "none")
    /\ UNCHANGED <<saveVars, extractVars, col, clients, allowed, life>>

ChromaList(where, limit, offset) ==
    /\ resp.op = "none"
    /\ resp' = Response("chroma_list",
                        [NoArgs EXCEPT !.limit = limit, !.offset = offset, !.where = where],
                        "ok", 200, ListArticles(col, where, limit, offset), "", "none")
    /\ UNCHANGED <<saveVars, extractVars, col, clients, allowed, life>>

(***************************************************************************)
(* What a reader of the store sees of an article: the names its            *)
(* category_id and organization_id stand for.                              *)
(***************************************************************************)
CategoryName(cats, id) ==
    IF \E c \in cats : c.id = id THEN (CHOOSE c \in cats : c.id = id).name
    ELSE Cat(None, "plain")

OrganizationName(orgs, id) ==
    IF \E o \in orgs : o.id = id THEN (CHOOSE o \in orgs : o.id = id).name
    ELSE None

(***************************************************************************)
(* The MCP server's tools (mcp-server tools/articles.py), which read the   *)
(* database the backend writes.                                            *)
(***************************************************************************)
NoCat == Cat(None, "plain")

\* the filters list_articles is called with
Filters(category, media_source, author) ==
    [category |-> category, media_source |-> media_source, author |-> author]

NoFilters == Filters(NoCat, None, None)

McpFilters ==
    {NoFilters, Filters(Cat("tech", "plain"), None, None), Filters(NoCat, "A", None),
     Filters(NoCat, None, "a1")}

\* how the calls a tool makes end: all well, no API key is configured,
\* the embedding call raises EmbeddingError, the database call times out,
\* the database call raises
McpOutcomes == {"ok", "NoApiKey", "EmbeddingError", "Timeout", "failed"}

\* the parameters search_articles hands to the RPC, with the threshold left out
RpcParamsNoThreshold(query_embedding, similarity_threshold, limit) ==
    [query_embedding |-> query_embedding, match_threshold |-> 0, match_count |-> limit]

\* the parameters search_articles hands to the RPC
RpcParams(query_embedding, similarity_threshold, limit) ==
    [query_embedding |-> query_embedding, match_threshold |-> similarity_threshold,
     match_count |-> limit]

\* the database function match_article_embeddings: the embeddings at least
\* match_threshold similar to the query with their articles, most similar
\* first, match_count of them at most; equally similar rows in any order
MatchArticleEmbeddings(embs, arts, cats, orgs, params) ==
    LET rows == {[article_id |-> a.id, title |-> a.title, author |-> a.author,
                  published_date |-> a.published_date, summary |-> a.summary,
                  url |-> a.url, keywords |-> a.keywords,
                  category_name |-> CategoryName(cats, a.category_id),
                  media_source |-> OrganizationName(orgs, a.organization_id),
                  similarity |-> SimOne - Distance(Point(params.query_embedding),
                                                   Point(e.embedding))] :
                    <<e, a>> \in {x \in embs \X arts : x[1].article_id = x[2].id}}
        kept == {r \in rows : r.similarity >= params.match_threshold}
    IN  {FirstN(o, params.match_count) :
            o \in Orderings({[rank |-> 0 - r.similarity, row |-> r] : r \in kept})}

\* the loop formatting the rows of the RPC, in their order
FormatRows(data) ==
    [i \in 1..Len(data) |->
        [id |-> data[i].article_id, title |-> data[i].title, author |-> data[i].author,
         published_date |-> data[i].published_date, summary |-> data[i].summary,
         url |-> data[i].url, keywords |-> data[i].keywords,
         category |-> data[i].category_name, media_source |-> data[i].media_source,
         similarity |-> data[i].similarity]]

\* the list holding one error
ErrorList(msg) == <<[error |-> msg]>>

\* what the body of search_articles raises: Embedder() without a key and
\* embedder.generate raise EmbeddingError, the RPC raises what its client
\* raises
McpSearchRaises(outcome) ==
    IF outcome = "NoApiKey"
        THEN Exc("EmbeddingError", "OPENAI_API_KEY environment variable is required")
    ELSE IF outcome = "EmbeddingError" THEN Exc("EmbeddingError", "OpenAI API error")
    ELSE IF outcome = "Timeout" THEN Exc("ReadTimeout", "timed out")
    ELSE IF outcome = "failed" THEN Exc("APIError", "rpc failed")
    ELSE NoExc

\* search_articles with `except EmbeddingError` as its only handler
McpSearchExceptEmbeddingOnly(e) ==
    IF e.type = "EmbeddingError" THEN [body |-> ErrorList("Embedding error"), escaped |-> "none"]
    ELSE [body |-> <<>>, escaped |-> e.type]

\* the handlers of search_articles: EmbeddingError, then every Exception,
\* a timeout told apart by the message
McpSearchExcept(e) ==
    IF e.type = "EmbeddingError" THEN [body |-> ErrorList("Embedding error"), escaped |-> "none"]
    ELSE IF e.msg = "timed out" \/ e.type \in {"TimeoutError", "CancelledError"}
        THEN [body |-> ErrorList("Request timed out"), escaped |-> "none"]
    ELSE [body |-> ErrorList("Search failed"), escaped |-> "none"]

\* the tool search_articles, `data` being what the RPC returned
McpSearchArticles(args, outcome, data) ==
    LET e == McpSearchRaises(outcome)
    IN  IF e = NoExc
        THEN Response("mcp_search", args, outcome, 200, FormatRows(data), "", "none")
        ELSE LET h == McpSearchExcept(e)
             IN  Response("mcp_search", args, outcome, IF h.escaped = "none" THEN 200 ELSE 0,
                          h.body, "", h.escaped)

McpSearch(q, limit, threshold, outcome) ==
    /\ resp.op = "none"
    /\ LET args == [NoArgs EXCEPT !.q = q, !.limit = limit, !.threshold = threshold]
           params == RpcParams(EmbedderGenerate("ok", q).vector, threshold, limit)
       IN  \E data \in MatchArticleEmbeddings(embeddings, articles, categories,
                                              organizations, params) :
              resp' = McpSearchArticles(args, outcome, data)
    /\ UNCHANGED <<saveVars, extractVars, col, clients, allowed, life>>

\* published_date as a number; NULL sorts first in descending order
DateKey(d) == IF d = NoDate THEN 100000000 ELSE d[1] * 10000 + d[2] * 100 + d[3]

\* one article flattened, the names its ids stand for joined in
Flattened(a, cats, orgs) ==
    [id |-> a.id, url |-> a.url, title |-> a.title, author |-> a.author,
     published_date |-> a.published_date, content |-> a.content,
     summary |-> a.summary, keywords |-> a.keywords,
     category_id |-> a.category_id, organization_id |-> a.organization_id,
     image_url |-> a.image_url,
     category |-> IF \E c \in cats : c.id = a.category_id
                  THEN CategoryName(cats, a.category_id) ELSE Cat(Absent, "plain"),
     media_source |-> IF \E o \in orgs : o.id = a.organization_id
                      THEN OrganizationName(orgs, a.organization_id) ELSE Absent]

\* the articles the filters of list_articles keep: a category or an
\* organization that is not found keeps none
McpFiltered(arts, cats, orgs, f) ==
    LET catIds == {c.id : c \in {x \in cats : x.name = f.category}}
        orgIds == {o.id : o \in {x \in orgs : x.name = f.media_source}}
    IN  {a \in arts :
            /\ f.category # NoCat => a.category_id \in catIds
            /\ f.media_source # None => a.organization_id \in orgIds
            /\ f.author # None => a.author = f.author}

\* order("published_date", desc=True): newest first, articles of one date
\* in any order
NewestFirst(arts) ==
    Orderings({[rank |-> 0 - DateKey(a.published_date), row |-> a] : a \in arts})

\* what the query of list_articles may return: rows offset .. offset +
\* limit - 1 of the filtered articles, newest first
McpListQuery(arts, cats, orgs, f, limit, offset) ==
    {Slice(o, offset, offset + limit) : o \in NewestFirst(McpFiltered(arts, cats, orgs, f))}

\* the tool list_articles: nothing in it catches what the client raises
McpListArticles(args, outcome, data, cats, orgs) ==
    IF outcome # "ok"
    THEN Response("mcp_list", args, outcome, 0, <<>>, "database call failed", "APIError")
    ELSE Response("mcp_list", args, outcome, 200,
                  [i \in 1..Len(data) |-> Flattened(data[i], cats, orgs)], "", "none")

McpList(f, limit, offset, outcome) ==
    /\ resp.op = "none"
    /\ LET args == [NoArgs EXCEPT !.limit = limit, !.offset = offset, !.where = f]
       IN  \E data \in McpListQuery(articles, categories, organizations, f, limit, offset) :
              resp' = McpListArticles(args, outcome, data, categories, organizations)
    /\ UNCHANGED <<saveVars, extractVars, col, clients, allowed, life>>

\* the tool get_article: the article flattened, or None; nothing in it
\* catches what the client raises
McpGetArticle(args, outcome, arts, cats, orgs) ==
    IF outcome # "ok"
    THEN Response("mcp_get", args, outcome, 0, <<>>, "database call failed", "APIError")
    ELSE LET rows == {a \in arts : a.id = args.id}
         IN  Response("mcp_get", args, outcome, 200,
                      AsList({Flattened(a, cats, orgs) : a \in rows}), "", "none")

McpGet(id, outcome) ==
    /\ resp.op = "none"
    /\ resp' = McpGetArticle([NoArgs EXCEPT !.id = id], outcome, articles, categories,
                             organizations)
    /\ UNCHANGED <<saveVars, extractVars, col, clients, allowed, life>>

(***************************************************************************)
(* GET /articles/search and GET /articles of the backend.                  *)
(***************************************************************************)
\* the methods class ArticleStorage defines
ArticleStorageMethods ==
    {"_get_or_create_organization", "_get_or_create_category", "_parse_date",
     "save_article", "get_article", "get_article_by_url"}

\* storage.<method>: AttributeError for a method the class does not define
GetAttr(method) ==
    IF method \in ArticleStorageMethods THEN NoExc
    ELSE Exc("AttributeError", "'ArticleStorage' object has no attribute")

\* the filters the routes are called with
HttpFilters == {NoFilters, Filters(Cat("tech", "mixed"), "A", None)}

\* the conditions search_articles builds for the store
SearchWhere(f) ==
    (IF f.category # NoCat THEN <<[key |-> "category", value |-> NormalizeCategory(f.category)]>>
     ELSE <<>>)
    \o (IF f.media_source # None THEN <<[key |-> "organization", value |-> f.media_source]>>
        ELSE <<>>)

\* a route calling storage.<method> inside try ... except Exception: the
\* lookup of a method that is not defined raises inside the try and is
\* answered 500
ReadRoute(op, method, args, ext) ==
    LET e == GetAttr(method)
    IN  IF e # NoExc THEN Response(op, args, ext, 500, <<>>, e.msg, "none")
        ELSE IF ext # "ok" THEN Response(op, args, ext, 500, <<>>, "storage failed", "none")
        ELSE Response(op, args, ext, 200, <<>>, "", "none")

HttpSearch(q, limit, f, threshold, ext) ==
    /\ resp.op = "none"
    /\ resp' = ReadRoute("http_search", "search_articles",
                         [NoArgs EXCEPT !.q = q, !.limit = limit, !.threshold = threshold,
                                        !.where = SearchWhere(f)],
                         ext)
    /\ UNCHANGED <<saveVars, extractVars, col, clients, allowed, life>>

HttpList(f, limit, offset, ext) ==
    /\ resp.op = "none"
    /\ resp' = ReadRoute("http_list", "list_articles",
                         [NoArgs EXCEPT !.limit = limit, !.offset = offset, !.where = f],
                         ext)
    /\ UNCHANGED <<saveVars, extractVars, col, clients, allowed, life>>

(***************************************************************************)
(* The stores being filled and read: saves one after another, entries put  *)
(* into the Chroma collection, and read requests between them.             *)
(***************************************************************************)
NextQuery ==
    \/ (resp.op = "none" /\ SaveStep(1))
    \/ (Quiet /\ \E d \in ChromaDocs : ChromaAdd(d))
    \/ (Quiet /\ \E id \in ChromaIds : ChromaDelete(id))
    \/ (Quiet /\ \E q \in Queries, n \in Limits, w \in Wheres : ChromaQuery(q, n, w))
    \/ (Quiet /\ \E w \in Wheres, l \in Limits, o \in Offsets : ChromaList(w, l, o))
    \/ (Quiet /\ \E q \in Queries, l \in Limits, t \in Thresholds, x \in McpOutcomes :
                    McpSearch(q, l, t, x))
    \/ (Quiet /\ \E f \in McpFilters, l \in Limits, o \in Offsets, x \in {"ok", "failed"} :
                    McpList(f, l, o, x))
    \/ (Quiet /\ \E q \in Queries, l \in Limits, f \in HttpFilters, t \in Thresholds,
                    x \in {"ok", "failed"} : HttpSearch(q, l, f, t, x))
    \/ (Quiet /\ \E f \in HttpFilters, l \in Limits, o \in Offsets, x \in {"ok", "failed"} :
                    HttpList(f, l, o, x))
    \/ RespEnd

SpecQuery == Init /\ [][NextQuery]_vars

(***************************************************************************)
(* Everything a client can call: the five HTTP endpoints of the backend    *)
(* and the three tools of the MCP server, one request at a time.           *)
(***************************************************************************)
NextApi ==
    \/ (xpc = "idle" /\ resp.op = "none" /\ SaveStepAnyLength(1))
    \/ (pc[1] = "idle" /\ resp.op = "none" /\ ExtractStep)
    \/ (Quiet /\ \E id \in AskedIds, db \in {"ok", "failed"} : GetArticle(id, db))
    \/ (Quiet /\ \E q \in Queries, l \in Limits, f \in HttpFilters, t \in Thresholds,
                    x \in {"ok", "failed"} : HttpSearch(q, l, f, t, x))
    \/ (Quiet /\ \E f \in HttpFilters, l \in Limits, o \in Offsets, x \in {"ok", "failed"} :
                    HttpList(f, l, o, x))
    \/ (Quiet /\ \E q \in Queries, l \in Limits, t \in Thresholds, x \in McpOutcomes :
                    McpSearch(q, l, t, x))
    \/ (Quiet /\ \E id \in AskedIds, x \in {"ok", "failed"} : McpGet(id, x))
    \/ (Quiet /\ \E f \in McpFilters, l \in Limits, o \in Offsets, x \in {"ok", "failed"} :
                    McpList(f, l, o, x))
    \/ RespEnd

SpecApi == Init /\ [][NextApi]_vars

(***************************************************************************)
(* The client handles.  get_storage, get_extractor and get_embedder keep   *)
(* the handle in a module global; _get_client, get_supabase_client and the *)
(* MCP search tool construct one on every call.                            *)
(***************************************************************************)
\* accessor calls followed per service
MaxCalls == 2

\* if _x is None: _x = X(); return _x
Singleton(c, s) ==
    IF c[s].held = 0
    THEN [c EXCEPT ![s] = [held |-> c[s].made + 1, made |-> c[s].made + 1,
                           calls |-> c[s].calls + 1]]
    ELSE [c EXCEPT ![s].calls = c[s].calls + 1]

\* return X(...): a handle is constructed and kept nowhere
Fresh(c, s) ==
    [c EXCEPT ![s] = [held |-> c[s].held, made |-> c[s].made + 1,
                      calls |-> c[s].calls + 1]]

\* get_embedder()
GetEmbedderIn(c) == Singleton(c, "embedder")

\* get_storage(); ArticleStorage.__init__ calls get_embedder()
GetStorageIn(c) ==
    IF c["storage"].held = 0 THEN Singleton(GetEmbedderIn(c), "storage")
    ELSE Singleton(c, "storage")

\* get_extractor()
GetExtractorIn(c) == Singleton(c, "extractor")

\* _get_collection(): client = _get_client()
GetCollectionIn(c) == Fresh(c, "chroma")

\* get_supabase_client()
GetSupabaseClientIn(c) == Fresh(c, "mcp_supabase")

\* Embedder() of the MCP server: self.client = OpenAI(...)
McpEmbedderIn(c) == Fresh(c, "mcp_openai")

\* the calls of every service stay below the bound after the step
Within(c) == \A s \in Services : c[s].calls <= MaxCalls

\* a save, search, list or get route: storage = get_storage()
GetStorage ==
    /\ Within(GetStorageIn(clients))
    /\ clients' = GetStorageIn(clients)
    /\ UNCHANGED <<saveVars, extractVars, resp, col, allowed, life>>

\* the extract route: extractor = get_extractor()
GetExtractor ==
    /\ Within(GetExtractorIn(clients))
    /\ clients' = GetExtractorIn(clients)
    /\ UNCHANGED <<saveVars, extractVars, resp, col, allowed, life>>

\* any function of chroma_store: col = _get_collection()
GetCollection ==
    /\ Within(GetCollectionIn(clients))
    /\ clients' = GetCollectionIn(clients)
    /\ UNCHANGED <<saveVars, extractVars, resp, col, allowed, life>>

\* the MCP tools get_article and list_articles: client = get_supabase_client()
GetSupabaseClient ==
    /\ Within(GetSupabaseClientIn(clients))
    /\ clients' = GetSupabaseClientIn(clients)
    /\ UNCHANGED <<saveVars, extractVars, resp, col, allowed, life>>

\* the MCP tool search_articles: embedder = Embedder(), and when the
\* embedding came, client = get_supabase_client()
McpSearchClients(embedded) ==
    LET c == IF embedded THEN GetSupabaseClientIn(McpEmbedderIn(clients))
             ELSE McpEmbedderIn(clients)
    IN  /\ Within(c)
        /\ clients' = c
        /\ UNCHANGED <<saveVars, extractVars, resp, col, allowed, life>>

NextClients ==
    \/ GetStorage
    \/ GetExtractor
    \/ GetCollection
    \/ GetSupabaseClient
    \/ \E embedded \in BOOLEAN : McpSearchClients(embedded)

SpecClients == Init /\ [][NextClients]_vars

(***************************************************************************)
(* The operations the two transports expose.                               *)
(***************************************************************************)
\* the routes of the backend router: extract_article, save_article,
\* search_articles, list_articles, get_article
HttpOperations == {"extract", "save", "get", "search", "list"}

\* the operations the HTTP API is serving or has just answered
HttpServing ==
    {op \in HttpOperations :
        \/ op = "save" /\ \E p \in Procs : pc[p] # "idle"
        \/ op = "extract" /\ xpc # "idle"
        \/ op = "get" /\ resp.op = "get"
        \/ op = "search" /\ resp.op = "http_search"
        \/ op = "list" /\ resp.op = "http_list"}

\* the functions register_tools decorates with @mcp.tool
RegisteredTools == {"search_articles", "get_article", "list_articles"}

\* the operation a tool performs
ToolOperation(t) ==
    CASE t = "search_articles" -> "search"
      [] t = "get_article" -> "get"
      [] t = "list_articles" -> "list"

(***************************************************************************)
(* The extract service under a configured allow-list.                      *)
(***************************************************************************)
\* the process starts with ALLOWED_CATEGORIES set: get_settings() reads it
\* once, before any request is served
Configure(l) ==
    /\ xpc = "idle"
    /\ allowed = AllowedCategories
    /\ l # AllowedCategories
    /\ allowed' = l
    /\ UNCHANGED <<saveVars, extractVars, resp, col, clients, life>>

NextExtract ==
    \/ \E l \in AllowLists : Configure(l)
    \/ ExtractStep

SpecExtract == Init /\ [][NextExtract]_vars

(***************************************************************************)
(* The Chroma store on its own: add, update, delete and get_by_url.        *)
(***************************************************************************)
NextChroma ==
    \/ \E d \in ChromaDocs : ChromaAdd(d)
    \/ \E id \in UpdateIds, e \in UpdateEmbeddings, d \in UpdateDocuments,
          m \in UpdateMetadatas : ChromaUpdate(id, e, d, m)
    \/ \E id \in ChromaIds : ChromaDelete(id)
    \/ \E u \in Urls : ChromaGetByUrl(u)
    \/ RespEnd

SpecChroma == Init /\ [][NextChroma]_vars

(***************************************************************************)
(* Concurrent saves against a database that already holds an article whose *)
(* embedding call failed when it was saved: the state one save of the      *)
(* third request leaves when the embedding service raises.                 *)
(***************************************************************************)
StoredRequest == CHOOSE r \in Requests : r.title = "t3"

InitStored ==
    /\ organizations = {}
    /\ categories = {[id |-> 1, name |-> NormalizeCategory(StoredRequest.category)]}
    /\ articles = {NewArticle(1, StoredRequest, ParseDate(StoredRequest.published_date),
                              1, NoId)}
    /\ embeddings = {}
    /\ pc = [p \in Procs |-> "idle"]
    /\ req = [p \in Procs |-> NoRequest]
    /\ tx = [p \in Procs |-> EmptyTx]
    /\ preId = [p \in Procs |-> NoId]
    /\ result = [p \in Procs |-> NoResult]
    /\ trace = [p \in Procs |-> NoTrace]
    /\ nSaves = 0
    /\ xpc = "idle"
    /\ xdata = NoData
    /\ xresult = NoExtractResult
    /\ xtrace = NoExtractTrace
    /\ resp = NoResp
    /\ col = <<>>
    /\ clients = [s \in Services |-> NoClient]
    /\ allowed = AllowedCategories
    /\ life = NotStarted

SpecRepeat == InitStored /\ [][Next]_vars

(***************************************************************************)
(* The application's lifespan (main.py): startup, serving, shutdown.        *)
(***************************************************************************)
MaxServed == 2

\* how await init_db() can end: it returns, raises an Exception, or the
\* startup task is cancelled (CancelledError is not an Exception)
InitDbOutcomes == {"ok", "Exception", "CancelledError"}

\* try: await init_db() except Exception: log and continue; then yield
AfterInitDbNoExcept(o) == IF o = "ok" THEN "serving" ELSE "aborted"

AfterInitDb(o) == IF o \in {"ok", "Exception"} THEN "serving" ELSE "aborted"

LifespanStartup(o) ==
    /\ life.pc = "created"
    /\ life' = [life EXCEPT !.pc = AfterInitDb(o), !.init_db = o]
    /\ UNCHANGED <<saveVars, extractVars, resp, col, clients, allowed>>

\* GET /
Root ==
    /\ life.pc = "serving"
    /\ life.served < MaxServed
    /\ resp' = Response("root", NoArgs, "none", 200,
                        <<[name |-> "MCPress API", version |-> "0.1.0", docs |-> "/docs"]>>,
                        "", "none")
    /\ life' = [life EXCEPT !.served = @ + 1]
    /\ UNCHANGED <<saveVars, extractVars, col, clients, allowed>>

\* GET /health
HealthCheck ==
    /\ life.pc = "serving"
    /\ life.served < MaxServed
    /\ resp' = Response("health", NoArgs, "none", 200, <<[status |-> "healthy"]>>,
                        "", "none")
    /\ life' = [life EXCEPT !.served = @ + 1]
    /\ UNCHANGED <<saveVars, extractVars, col, clients, allowed>>

\* POST /api/v1/extract while the application serves
ExtractWhileServing ==
    /\ life.pc = "serving"
    /\ ExtractStep

\* the code after the yield: await close_db(), whichever way it ends
LifespanShutdown ==
    /\ life.pc = "serving"
    /\ life' = [life EXCEPT !.pc = "stopped", !.close_db = @ + 1]
    /\ UNCHANGED <<saveVars, extractVars, resp, col, clients, allowed>>

NextLife ==
    \/ \E o \in InitDbOutcomes : LifespanStartup(o)
    \/ Root
    \/ HealthCheck
    \/ ExtractWhileServing
    \/ LifespanShutdown

SpecLife == Init /\ [][NextLife]_vars

\* request p takes a step
Steps(p) == pc'[p] # pc[p]

\* request p ends here, answered 200
Returns(p) == pc[p] # "done" /\ pc'[p] = "done" /\ result'[p].status = 200

DbExceptions == {"OperationalError", "IntegrityError", "MultipleResultsFound", "DataError"}

(***************************************************************************)
(* C1.  At most one stored article per URL, in every reachable state,      *)
(* also when save requests carrying the same URL interleave so that each   *)
(* selects by url before the other inserts.                                *)
(***************************************************************************)
C1_OneArticlePerUrl ==
    \A a, b \in articles : a.url = b.url => a = b

\* two requests with the same URL both found no article; one has committed
\* its insert and the other was refused by the unique key
C1_Witness ==
    \E p, q \in Procs :
        /\ p # q
        /\ req[p].url = req[q].url
        /\ preId[p] = NoId /\ preId[q] = NoId
        /\ pc[p] = "done" /\ result[p].status = 200
        /\ pc[q] = "done" /\ trace[q].raised = "IntegrityError"
        /\ result[q].detail = "Database integrity error"

(***************************************************************************)
(* C2.  Save is idempotent per URL: a save of a URL that a completed       *)
(* earlier save stored adds no article, and returns the id of the article  *)
(* stored under that URL, the id the first save returned.                  *)
(***************************************************************************)
C2_SaveIdempotent ==
    [][\A p \in Procs :
        /\ (Steps(p) /\ preId[p] # NoId) =>
                Cardinality(articles') = Cardinality(articles)
        /\ Returns(p) =>
                /\ \E a \in articles' : a.url = req[p].url /\ a.id = result'[p].id
                /\ preId[p] # NoId => result'[p].id = preId[p]
      ]_vars

C2_Witness ==
    \E p \in Procs :
        /\ pc[p] = "done" /\ result[p].status = 200
        /\ preId[p] # NoId /\ result[p].id = preId[p]
        /\ Cardinality(articles) = 1

(***************************************************************************)
(* C3.  A repeat save of an existing URL updates the article in place: the *)
(* stored article keeps its id and url, and its title, author,             *)
(* published_date (as parsed), content, summary, keywords, category (as    *)
(* normalized), organization and image_url are those of the latest         *)
(* request.                                                                *)
(***************************************************************************)
C3_RepeatSaveTakesLatestRequest ==
    [][\A p \in Procs :
        (Returns(p) /\ preId[p] # NoId) =>
            \E a \in articles' :
                /\ a.id = preId[p]
                /\ a.url = req[p].url
                /\ a.title = req[p].title
                /\ a.author = req[p].author
                /\ a.published_date = ParseDate(req[p].published_date)
                /\ a.content = req[p].content
                /\ a.summary = req[p].summary
                /\ a.keywords = req[p].keywords
                /\ CategoryName(categories', a.category_id) = NormalizeCategory(req[p].category)
                /\ OrganizationName(organizations', a.organization_id) = req[p].organization.name
                /\ a.image_url = req[p].image_url
      ]_vars

(***************************************************************************)
(* C4.  Embedding failure does not block the save: when the embedding call *)
(* of a save fails, for any cause, and no database operation fails, the    *)
(* article is stored and the save answers with its id.                     *)
(***************************************************************************)
C4_EmbeddingFailureDoesNotBlockSave ==
    \A p \in Procs :
        (/\ pc[p] = "done"
         /\ trace[p].embed \in EmbedOutcomes \ {"ok"}
         /\ trace[p].raised \notin DbExceptions)
        => /\ result[p].status = 200
           /\ result[p].id # NoId
           /\ \E a \in articles : a.id = result[p].id /\ a.url = req[p].url

C4_Witness ==
    \E p \in Procs :
        /\ pc[p] = "done"
        /\ trace[p].embed = "Exception"
        /\ result[p].status = 200
        /\ \E a \in articles : a.id = result[p].id /\ a.url = req[p].url
        /\ ~\E e \in embeddings : e.article_id = result[p].id

(***************************************************************************)
(* C7: every failure of an external call made while handling POST extract  *)
(* or POST save (reader fetch, LLM completion, parsing of the answer,      *)
(* database operation) is answered with HTTP 500 carrying the message of   *)
(* the local error (ExtractionError / StorageError), a request without     *)
(* such a failure is answered 200, and no exception escapes the handler.   *)
(***************************************************************************)
C7_ExternalFailuresAnswered500 ==
    /\ \A p \in Procs :
          pc[p] = "done" =>
             /\ result[p].escaped = "none"
             /\ (trace[p].raised # "none") <=> (result[p].status = 500)
             /\ (trace[p].raised = "none") <=> (result[p].status = 200)
             /\ result[p].status = 500 => result[p].detail # ""
    /\ xpc = "done" =>
          /\ xresult.escaped = "none"
          /\ (xtrace.raised # "none") <=> (xresult.status = 500)
          /\ (xtrace.raised = "none") <=> (xresult.status = 200)
          /\ xresult.status = 500 => xresult.detail # ""

\* the completion call raised something that is not a GroqError, and the
\* request was answered 500
C7_Witness ==
    /\ xpc = "done"
    /\ xtrace.completions = 1
    /\ xtrace.raised = "Exception"
    /\ xresult.status = 500
    /\ xresult.detail = "Unexpected extraction error"

(***************************************************************************)
(* C8: GET article by id answers 404 exactly when the lookup succeeded and *)
(* no stored article has the requested id, answers 200 with the article    *)
(* when one exists, and answers 500 exactly when the lookup itself failed. *)
(***************************************************************************)
C8_GetArticleStatus ==
    resp.op = "get" =>
       LET found == {a \in articles : a.id = resp.args.id}
       IN  /\ resp.escaped = "none"
           /\ resp.status \in {200, 404, 500}
           /\ (resp.status = 404) <=> (resp.ext = "ok" /\ found = {})
           /\ (resp.status = 200) <=> (resp.ext = "ok" /\ found # {})
           /\ (resp.status = 500) <=> (resp.ext # "ok")
           /\ resp.status = 200 => /\ Len(resp.body) = 1
                                   /\ resp.body[1] \in found
           /\ resp.status # 200 => resp.body = <<>>

\* an id that no article has was asked of a store that holds articles
C8_Witness ==
    /\ resp.op = "get"
    /\ resp.status = 404
    /\ resp.detail = "Article not found"
    /\ articles # {}

\* the rows of a response that are articles, not errors
ArticleRows(rows) == SelectSeq(rows, LAMBDA r : "error" \notin DOMAIN r)

\* the ids of rows, in their order
Ids(rows) == [i \in 1..Len(rows) |-> rows[i].id]

C6_ListReturnsPage ==
    (resp.op \in {"chroma_list", "mcp_list", "http_list"} /\ resp.ext = "ok") =>
       LET L == resp.args.limit
           O == resp.args.offset
       IN  /\ resp.status = 200
           /\ Len(resp.body) <= L
           /\ resp.op = "chroma_list" =>
                 Ids(resp.body) =
                    Slice(Ids(SelectSeq(col, LAMBDA e : Matches(e, resp.args.where))), O, O + L)
           /\ resp.op = "mcp_list" =>
                 \E o \in NewestFirst(McpFiltered(articles, categories, organizations,
                                                  resp.args.where)) :
                    Ids(resp.body) = Slice(Ids(o), O, O + L)
           /\ (resp.op = "http_list" /\ resp.args.where = NoFilters) =>
                 Len(resp.body) = Min(L, IF O < Cardinality(articles)
                                         THEN Cardinality(articles) - O ELSE 0)

(***************************************************************************)
(* C9: when no external service fails, GET search and GET list of the      *)
(* HTTP API answer 200 with a list, not an error.                          *)
(***************************************************************************)
C9_HttpSearchAndListAnswer ==
    (resp.op \in {"http_search", "http_list"} /\ resp.ext = "ok") =>
       /\ resp.status = 200
       /\ resp.escaped = "none"

(***************************************************************************)
(* C10: the articles a search returns (query of the Chroma store, MCP      *)
(* search_articles, HTTP GET search) are in order of non-increasing        *)
(* similarity to the query and are at most `limit`.                        *)
(***************************************************************************)
C10_SearchRanked ==
    resp.op \in {"chroma_query", "mcp_search", "http_search"} =>
       LET rows == ArticleRows(resp.body)
       IN  /\ Len(rows) <= resp.args.limit
           /\ \A i, j \in 1..Len(rows) : i < j => rows[i].similarity >= rows[j].similarity

\* three entries are in the collection, put there nearest last, and the
\* query returns the two nearest of them, nearest first
C10_Witness ==
    /\ resp.op = "chroma_query"
    /\ resp.args.limit = 2
    /\ Len(col) = 3
    /\ Len(resp.body) = 2
    /\ resp.body[1].similarity > resp.body[2].similarity
    /\ \E i, j \in 1..Len(col) :
          /\ i < j
          /\ col[j].id = resp.body[1].id
          /\ col[i].id = resp.body[2].id

(***************************************************************************)
(* C11: the category of every stored article, and the name of every        *)
(* category record, is a member of settings.allowed_categories.            *)
(***************************************************************************)
C11_StoredCategoriesAllowed ==
    /\ \A c \in categories : c.name \in AllowedCategories
    /\ \A a \in articles : CategoryName(categories, a.category_id) \in AllowedCategories

(***************************************************************************)
(* C12: no call of an HTTP endpoint or of an MCP tool removes a stored     *)
(* article: no step takes an id out of the set of stored article ids.      *)
(***************************************************************************)
C12_NoArticleRemoved ==
    [][{a.id : a \in articles} \subseteq {a.id : a \in articles'}]_vars

\* a repeat save of a stored URL has been answered 200 and the article is
\* stored still, with the fields of that save
C12_Witness ==
    /\ pc[1] = "done"
    /\ result[1].status = 200
    /\ preId[1] # NoId
    /\ \E a \in articles : a.id = preId[1] /\ a.title = req[1].title

(***************************************************************************)
(* C13: while one request is handled, the reader fetch, the LLM completion *)
(* and the embedding call are each made at most once; an extract request   *)
(* in which a call failed has ended, answered 500, and a save whose        *)
(* embedding call failed is past that call, on its way to commit.          *)
(***************************************************************************)
C13_NoRetry ==
    /\ xtrace.fetches <= 1
    /\ xtrace.completions <= 1
    /\ xtrace.raised # "none" => (xpc = "done" /\ xresult.status = 500)
    /\ \A p \in Procs :
          /\ trace[p].embeds <= 1
          /\ trace[p].embed \in EmbedOutcomes \ {"ok"} => pc[p] \in {"commit", "done"}

\* the reader answered, the completion call failed, and the request ended
\* after one call of each
C13_Witness ==
    /\ xpc = "done"
    /\ xtrace.fetches = 1
    /\ xtrace.completions = 1
    /\ xtrace.raised = "GroqError"
    /\ xresult.status = 500

(***************************************************************************)
(* C14: every embedding stored for an article is a vector of the           *)
(* configured dimension, whatever length the embedding service answered    *)
(* with.                                                                   *)
(***************************************************************************)
C14_StoredVectorsHaveConfiguredDimension ==
    \A e \in embeddings : e.dim = EmbeddingDimensions

\* the service answered a save with a vector of another length: the save
\* was answered 500 and stored nothing of it
C14_Witness ==
    \E p \in Procs :
        /\ pc[p] = "done"
        /\ trace[p].embed = "ok_other_length"
        /\ trace[p].raised = "DataError"
        /\ result[p].status = 500
        /\ preId[p] = NoId
        /\ ~\E a \in articles : a.url = req[p].url

(***************************************************************************)
(* C15.  The client handle of each external service is created at most     *)
(* once per process, on first use, and every later request reuses it: of   *)
(* every service, storage, extractor, embedder, vector store and the MCP   *)
(* server's database and embedding clients, at most one handle was ever    *)
(* constructed, and one was constructed as soon as a handle was asked for. *)
(***************************************************************************)
C15_OneHandlePerService ==
    \A s \in Services :
        /\ clients[s].made <= 1
        /\ clients[s].calls > 0 => clients[s].made = 1

(***************************************************************************)
(* C16.  Save / get round trip: when a save has succeeded and returned id  *)
(* i, GET article by id i, no other save coming between, answers 200 with  *)
(* an article whose url, title, author, content, summary, keywords and     *)
(* image_url are those of the save request, and whose published_date is    *)
(* the date the request's string denotes: a calendar date that the string  *)
(* writes as year-month-day, day/month/year, month/day/year or             *)
(* year/month/day, and no date when it writes none.                        *)
(***************************************************************************)
\* the calendar dates a date string can be read as
Readings(s) ==
    IF s = NoDateStr THEN {}
    ELSE IF s[1] = "-" THEN {d \in {<<s[2], s[3], s[4]>>} : ValidDate(d[1], d[2], d[3])}
    ELSE {d \in {<<s[4], s[3], s[2]>>, <<s[4], s[2], s[3]>>, <<s[2], s[3], s[4]>>} :
            ValidDate(d[1], d[2], d[3])}

Denotes(s, d) == IF Readings(s) = {} THEN d = NoDate ELSE d \in Readings(s)

C17_McpMirrorsHttp ==
    \A op \in HttpOperations :
        op \in HttpServing => \E t \in RegisteredTools : ToolOperation(t) = op

(***************************************************************************)
(* C18.  The save endpoint performs its steps in the documented order: the *)
(* embedding of the summary is generated first, then the organization is   *)
(* inserted or found, then the category, then the article record, and      *)
(* last the embedding record linked to the article.  So a request that     *)
(* holds an organization, a category or an article has asked for the       *)
(* embedding already, holds no category before its organization, no        *)
(* article before its category and no embedding record before its article. *)
(***************************************************************************)
C18_DocumentedOrder ==
    \A p \in Procs :
        /\ (\/ tx[p].organization_id # NoId
            \/ tx[p].category_id # NoId
            \/ tx[p].article_id # NoId) => trace[p].embeds > 0
        /\ tx[p].category_id # NoId =>
                (req[p].organization = NoOrg \/ tx[p].organization_id # NoId)
        /\ tx[p].article_id # NoId => tx[p].category_id # NoId
        /\ (tx[p].embRows \cup tx[p].embUpd) # {} => tx[p].article_id # NoId

(***************************************************************************)
(* C19.  Save inserts or updates the organization by email: when a save    *)
(* carrying organization info returns, saves coming one at a time, there   *)
(* is exactly one organization record of its email, and the name of that   *)
(* record is the name this save, the most recent one, gave.                *)
(***************************************************************************)
C19_OrganizationUpsertByEmail ==
    [][\A p \in Procs :
        (Returns(p) /\ req[p].organization # NoOrg) =>
            LET rows == {o \in organizations' : o.email = req[p].organization.email}
            IN  /\ Cardinality(rows) = 1
                /\ \A o \in rows : o.name = req[p].organization.name
      ]_vars

(***************************************************************************)
(* C20.  Extraction is strictly fetch, then LLM: the completion is asked   *)
(* for only after the reader fetch of this request returned a successful   *)
(* response of at least 100 characters; a fetch that fails, or returns     *)
(* empty or shorter content, ends the extract with ExtractionError (the    *)
(* route answers 500) and the LLM is not called.                           *)
(***************************************************************************)
C20_FetchThenLlm ==
    [][/\ xtrace'.completions > xtrace.completions =>
            (xpc = "llm" /\ xtrace.fetches = 1 /\ xdata.len >= MinContentLen)
       /\ (xpc = "fetch" /\ xpc' = "llm") => xdata'.len >= MinContentLen
       /\ (xpc = "fetch" /\ xpc' # "llm") =>
            /\ xpc' = "done"
            /\ xresult'.status = 500
            /\ xresult'.escaped = "none"
            /\ xtrace'.raised \in {"ExtractionError", "HTTPStatusError", "RequestError",
                                   "Exception"}
            /\ xtrace'.completions = 0
      ]_vars

\* the reader answered with a page too short: the extract has ended with
\* 500, one fetch made and no completion asked for
C20_Witness ==
    /\ xpc = "done"
    /\ xtrace.fetches = 1
    /\ xtrace.completions = 0
    /\ xtrace.raised = "ExtractionError"
    /\ xresult.status = 500

(***************************************************************************)
(* C21.  For every configured allow-list of categories, the category of    *)
(* every successfully extracted ArticleContent is a member of that list:   *)
(* a category of the LLM outside the list is replaced, never passed on.    *)
(***************************************************************************)
C21_ExtractedCategoryAllowed ==
    (xpc = "done" /\ xresult.status = 200) => xresult.data.category \in allowed

(***************************************************************************)
(* C22.  Every ArticleContent a successful extraction returns has title,   *)
(* content, summary, keywords and category present, content and summary    *)
(* non-empty and keywords a list of strings; an LLM response that lacks a  *)
(* required field, or whose content or summary is empty, ends in           *)
(* ExtractionError (the route answers 500) with no ArticleContent.         *)
(***************************************************************************)
\* the JSON answer lacks a required field or has empty content or summary
Lacking(raw) ==
    \/ Absent \in {raw.title, raw.content, raw.summary, raw.category.name}
    \/ raw.keywords.kind = "absent"
    \/ raw.content = ""
    \/ raw.summary = ""

\* an ArticleContent with the required fields
Complete5(d) ==
    /\ d.title \notin {None, Absent}
    /\ d.content \notin {None, Absent, ""}
    /\ d.summary \notin {None, Absent, ""}
    /\ d.category.name \notin {None, Absent}
    /\ \A i \in 1..Len(d.keywords) : d.keywords[i].t = "str"

C22_ExtractedContentComplete ==
    [][(xpc = "parse" /\ xpc' = "done") =>
          /\ xresult'.status = 200 => Complete5(xresult'.data)
          /\ Lacking(xdata.raw) =>
                /\ xresult'.status = 500
                /\ xresult'.data = NoContent
                /\ xtrace'.raised = "ExtractionError"
      ]_vars

\* an extraction has returned an ArticleContent whose keywords the LLM
\* gave as a number and a string
C22_Witness ==
    /\ xpc = "done"
    /\ xresult.status = 200
    /\ Complete5(xresult.data)
    /\ Len(xresult.data.keywords) = 2
    /\ xresult.data.keywords[1].v = "7"

(***************************************************************************)
(* C23.  The MCP tool search_articles never propagates an exception: on    *)
(* any failure (no API key, embedding error, timeout, database RPC error)  *)
(* it returns a list holding exactly one dict with an "error" key, and     *)
(* when no article matches it returns the empty list.                      *)
(***************************************************************************)
C23_McpSearchNeverRaises ==
    resp.op = "mcp_search" =>
        /\ resp.escaped = "none"
        /\ resp.ext # "ok" =>
              /\ Len(resp.body) = 1
              /\ DOMAIN resp.body[1] = {"error"}
        /\ (resp.ext = "ok" /\ ~\E e \in embeddings :
                SimOne - Distance(Point(EmbedderGenerate("ok", resp.args.q).vector),
                                  Point(e.embedding)) >= resp.args.threshold)
              => resp.body = <<>>

\* the database call of a search timed out while articles with embeddings
\* are stored: one error is returned
C23_Witness ==
    /\ resp.op = "mcp_search"
    /\ resp.ext = "Timeout"
    /\ embeddings # {}
    /\ resp.body = ErrorList("Request timed out")

(***************************************************************************)
(* C24.  The vector store is keyed by URL: after any sequence of add       *)
(* calls, with whatever ids and url metadata, at most one stored entry     *)
(* carries a given url, and get_by_url of the url just added returns the   *)
(* entry just added.                                                       *)
(***************************************************************************)
C24_StoreKeyedByUrl ==
    [][\A d \in ChromaDocs :
          (col' = Add(col, d) /\ col' # col) =>
              /\ \A i, j \in 1..Len(col') :
                    col'[i].metadata.url = col'[j].metadata.url => i = j
              /\ LET found == GetByUrl(col', MetadataToStr(d.metadata.url)[1])
                 IN  Len(found) = 1 /\ found[1].id = d.id
      ]_vars

(***************************************************************************)
(* C25.  chroma_store.update changes only the fields passed: for an id     *)
(* that is stored, an omitted embedding or document keeps its stored       *)
(* value, metadata keys not named keep their stored values, no other entry *)
(* changes and the number of entries stays; for an id that is not stored   *)
(* the store is left as it was.                                            *)
(***************************************************************************)
\* c2 is c after update(id, embedding, document, metadata) on these terms
OnlyPassedChanged(c, c2, id, embedding, document, metadata) ==
    IF \A i \in 1..Len(c) : c[i].id # id THEN c2 = c
    ELSE /\ Len(c2) = Len(c)
         /\ \A i \in 1..Len(c) :
               IF c[i].id # id THEN c2[i] = c[i]
               ELSE /\ c2[i].id = id
                    /\ embedding = None => c2[i].embedding = c[i].embedding
                    /\ document = None => c2[i].document = c[i].document
                    /\ DOMAIN c[i].metadata \subseteq DOMAIN c2[i].metadata
                    /\ \A k \in DOMAIN c[i].metadata :
                          k \notin {p[1] : p \in metadata} =>
                              c2[i].metadata[k] = c[i].metadata[k]

C25_UpdateChangesOnlyPassed ==
    \A id \in UpdateIds, e \in UpdateEmbeddings, d \in UpdateDocuments,
       m \in UpdateMetadatas :
        OnlyPassedChanged(col, Update(col, id, e, d, m), id, e, d, m)

\* three entries are stored, and the entry of id "a" carries the document
\* an update gave it together with the embedding and the url add gave it
C25_Witness ==
    /\ Len(col) = 3
    /\ \E i \in 1..Len(col) :
          /\ col[i].id = "a"
          /\ col[i].document = "d9"
          /\ col[i].embedding = "s1"
          /\ col[i].metadata.url = <<"u1">>
          /\ col[i].metadata.category = <<"sports">>

(***************************************************************************)
(* C26.  save_article is all-or-nothing on error: a call that raises       *)
(* StorageError leaves the stored organizations, categories, articles and  *)
(* embeddings exactly as they were before the call.  No step of a save     *)
(* changes the tables but the one in which it returns its id, and a save   *)
(* that fails keeps no row pending.                                        *)
(***************************************************************************)
C26_SaveAllOrNothing ==
    [][/\ (\A p \in Procs : ~Returns(p)) => Tables' = Tables
       /\ \A p \in Procs :
            (pc[p] # "done" /\ pc'[p] = "done" /\ result'[p].status # 200) =>
                /\ Tables' = Tables
                /\ tx'[p] = EmptyTx
                /\ result'[p].status = 500
      ]_vars

\* a save carrying an organization failed on an empty database after its
\* organization, category and article were flushed and the embedding was
\* generated: nothing is stored
C26_Witness ==
    \E p \in Procs :
        /\ pc[p] = "done"
        /\ result[p].status = 500
        /\ trace[p].embeds = 1
        /\ trace[p].raised = "OperationalError"
        /\ req[p].organization # NoOrg
        /\ organizations = {}
        /\ categories = {}
        /\ articles = {}

(***************************************************************************)
(* C27.  After every successful save, an article that has a stored         *)
(* embedding has one that was generated from the summary now stored: a     *)
(* repeat save that changes the summary never leaves the embedding of the  *)
(* previous summary attached to the article.                               *)
(***************************************************************************)
C27_EmbeddingOfStoredSummary ==
    \A a \in articles : \A e \in embeddings :
        e.article_id = a.id => e.embedding = EmbedderGenerate("ok", a.summary).vector

(***************************************************************************)
(* C28.  In every reachable state each article has at most one embedding   *)
(* record and every embedding record references an article that exists: a  *)
(* repeat save replaces the vector of the record instead of adding one.    *)
(***************************************************************************)
C28_OneEmbeddingPerArticle ==
    /\ \A e \in embeddings : \E a \in articles : a.id = e.article_id
    /\ \A e1, e2 \in embeddings : e1.article_id = e2.article_id => e1 = e2

\* C29: the application serves requests whether init_db returned or raised
\* an exception at startup, and close_db is called exactly once at
\* shutdown in both cases, never before
C29_LifespanServesAndClosesOnce ==
    /\ life.init_db \in {"ok", "Exception"} => life.pc \in {"serving", "stopped"}
    /\ life.served > 0 => life.init_db \in {"ok", "Exception"}
    /\ life.pc = "stopped" => life.close_db = 1
    /\ life.pc # "stopped" => life.close_db = 0

\* init_db raised, requests were answered, and the application shut down
C29_Witness ==
    /\ life.init_db = "Exception"
    /\ life.served > 0
    /\ xpc = "done"
    /\ life.pc = "stopped"
    /\ life.close_db = 1

\* the same after a successful initialisation
C29_WitnessOk ==
    /\ life.init_db = "ok"
    /\ life.served > 0
    /\ life.pc = "stopped"
    /\ life.close_db = 1
=============================================================================
